---- MODULE Spec2Model ----
(***************************************************************************)
(* Provisioning orchestrator of dyte-cms-starter (cli.tsx, the App         *)
(* component): the CLI step machine, runProvisioning with its 13-step      *)
(* timeline, updateStep, the live-output callbacks and rollback.           *)
(*                                                                         *)
(* React state is modelled as the variables below.  A function created     *)
(* during a render closes over that render's state values: runProvisioning *)
(* and rollback are called from the effect of the render in which step     *)
(* became 'provisioning', so the plain reads they make of provisioningSteps*)
(* and createdResources see that render's values (cSteps, cResources),     *)
(* while functional updaters (setX(prev => ...)) see the current state.    *)
(* Optional values are sequences: <<>> stands for null / undefined.        *)
(***************************************************************************)
EXTENDS Integers, Sequences, FiniteSets, TLC

\* ---------------------------------------------------------------- bounds
MaxRuns == 2
MaxOutput == 2

\* ------------------------------------------------------ program constants
NumSteps == 13
maxLines == 5
maxErrorLines == 50
MAX_LLM_RETRIES == 3

Undefined == <<>>

StepLabels ==
  << "Scaffolding project files",
     "Installing dependencies",
     "Creating Railway project",
     "Provisioning PostgreSQL database",
     "Generating database migrations",
     "Creating GitHub repository",
     "Pushing code to GitHub",
     "Deploying Payload CMS",
     "Configuring GitHub Secrets",
     "Waiting for Payload CMS to be ready (3-5 min - please be patient!)",
     "Creating initial Home page",
     "Enabling webhook and triggering deploy",
     "Waiting for GitHub Actions workflow to complete" >>

\* const steps: ProvisioningStep[] = [...] : every entry pending, no error,
\* no details.  Entry i of the code is element i+1 here.
InitialSteps ==
  [i \in 1..NumSteps |->
     [label |-> StepLabels[i], status |-> "pending",
      error |-> Undefined, details |-> Undefined]]

\* The awaited (or synchronously called) collaborators of runProvisioning in
\* code order, each with the index of the step it belongs to.
Pipeline ==
  << [call |-> "scaffoldProject",                  step |-> 0],
     [call |-> "validateCachedFiles",              step |-> 1],
     [call |-> "copyCachedFiles",                  step |-> 1],
     [call |-> "runNpmInstall:payload",            step |-> 1],
     [call |-> "runNpmInstall:web",                step |-> 1],
     [call |-> "createRailwayProject",             step |-> 2],
     [call |-> "provisionPostgres",                step |-> 3],
     [call |-> "runPayloadMigrationGeneration",    step |-> 4],
     [call |-> "createGitHubRepo",                 step |-> 5],
     [call |-> "initializeAndPushRepo",            step |-> 6],
     [call |-> "createService",                    step |-> 7],
     [call |-> "setServiceRootDirectory",          step |-> 7],
     [call |-> "getServiceDomain",                 step |-> 7],
     [call |-> "setServiceVariables",              step |-> 7],
     [call |-> "connectServiceToGitHub",           step |-> 7],
     [call |-> "checkGhCliAvailable",              step |-> 8],
     [call |-> "setGitHubSecretsViaCli",           step |-> 8],
     [call |-> "setGitHubSecretsViaApi",           step |-> 8],
     [call |-> "waitForPayloadReady",              step |-> 9],
     [call |-> "authenticatePayload",              step |-> 10],
     [call |-> "createPage",                       step |-> 10],
     [call |-> "setServiceVariables:GITHUB_TOKEN", step |-> 11],
     [call |-> "commitAndPushWorkflow",            step |-> 11],
     [call |-> "fetch:dispatches",                 step |-> 11],
     [call |-> "waitForWorkflowCompletion",        step |-> 12] >>

Positions == 1..Len(Pipeline)
Finished == Len(Pipeline) + 1

CallAt(p) == Pipeline[p].call
StepAt(p) == Pipeline[p].step

\* Position of the call that follows position p when the call at p returned
\* ret (only checkGhCliAvailable's result is inspected); Finished after the
\* last one.  wtv is the withTestValues prop.
NextPos(p, ret, wtv) ==
  CASE CallAt(p) = "scaffoldProject"        -> IF wtv THEN p + 1 ELSE p + 3
    [] CallAt(p) = "copyCachedFiles"        -> p + 3
    [] CallAt(p) = "checkGhCliAvailable"    -> IF ret THEN p + 1 ELSE p + 2
    [] CallAt(p) = "setGitHubSecretsViaCli" -> p + 2
    [] OTHER                                -> p + 1

\* Calls that spawn a subprocess and stream its output through addLine.
IsSubprocess(p) ==
  CallAt(p) \in {"runNpmInstall:payload", "runNpmInstall:web",
                 "runPayloadMigrationGeneration"}

\* ------------------------------------------------------------ output lines
\* A line is a sequence of characters; " " is white space.
Lines == { <<>>, <<" ">>, <<" ", "a", " ">> }

\* The most pieces data.toString().split('\n') yields for one data event.
MaxChunk == 2

\* The most non-blank lines one subprocess is followed for.
MaxArrived == 53
Chunks == UNION { [1..n -> Lines] : n \in 1..MaxChunk }

RECURSIVE TrimLeft(_)
TrimLeft(l) == IF l # <<>> /\ Head(l) = " " THEN TrimLeft(Tail(l)) ELSE l

RECURSIVE TrimRight(_)
TrimRight(l) ==
  IF l # <<>> /\ l[Len(l)] = " " THEN TrimRight(SubSeq(l, 1, Len(l) - 1)) ELSE l

\* String.prototype.trim
Trim(l) == TrimRight(TrimLeft(l))

\* push without the shift
PushBounded_noShift(arr, x, max) == Append(arr, x)

\* arr.push(x); if (arr.length > max) arr.shift()
PushBounded(arr, x, max) ==
  LET pushed == Append(arr, x)
  IN IF Len(pushed) > max THEN Tail(pushed) ELSE pushed

\* addLine that tests and stores the line as it came
addLine_noTrim(w, line) ==
  IF line # <<>>
  THEN [outputLines |-> PushBounded(w.outputLines, line, maxLines),
        allOutput   |-> PushBounded(w.allOutput, line, maxErrorLines),
        update      |-> TRUE]
  ELSE [outputLines |-> w.outputLines, allOutput |-> w.allOutput,
        update      |-> FALSE]

\* addLine of runNpmInstall / runPayloadMigrationGeneration: the two windows
\* after the call, and whether updateStep is called.
addLine(w, line) ==
  IF Trim(line) # <<>>
  THEN [outputLines |-> PushBounded(w.outputLines, Trim(line), maxLines),
        allOutput   |-> PushBounded(w.allOutput, Trim(line), maxErrorLines),
        update      |-> TRUE]
  ELSE [outputLines |-> w.outputLines, allOutput |-> w.allOutput,
        update      |-> FALSE]

\* ------------------------------------------------------------- updateStep
\* updateStep with the comparison i >= index in place of i === index
updateStep_fromIndex(steps, index, status, errorMsg, details) ==
  [i \in 1..Len(steps) |->
     IF i - 1 >= index
     THEN [steps[i] EXCEPT !.status = status, !.error = errorMsg,
                           !.details = details]
     ELSE steps[i]]

\* updateStep without the spread of the old entry
updateStep_noSpread(steps, index, status, errorMsg, details) ==
  [i \in 1..Len(steps) |->
     IF i - 1 = index
     THEN [label |-> "", status |-> status, error |-> errorMsg,
           details |-> details]
     ELSE steps[i]]

\* setProvisioningSteps(steps => steps.map((s, i) =>
\*   i === index ? { ...s, status, error: errorMsg, details } : s))
updateStep(steps, index, status, errorMsg, details) ==
  [i \in 1..Len(steps) |->
     IF i - 1 = index
     THEN [steps[i] EXCEPT !.status = status, !.error = errorMsg,
                           !.details = details]
     ELSE steps[i]]

\* provisioningSteps.findIndex(s => s.status === 'in_progress'), -1 if none
findIndexInProgress(steps) ==
  LET hits == {i \in 1..Len(steps) : steps[i].status = "in_progress"}
  IN IF hits = {} THEN -1
     ELSE (CHOOSE i \in hits : \A j \in hits : i <= j) - 1

\* --------------------------------------------------------------- messages
\* A thrown value is [isError, message]; a message is a sequence of strings
\* (its concatenation is the text).
Err(m) == [isError |-> TRUE, message |-> m]
NonError == [isError |-> FALSE, message |-> <<>>]

\* err instanceof Error ? err.message : 'Unknown error'
MessageOf(err) == IF err.isError THEN err.message ELSE <<"Unknown error">>

\* lines.join('\n')
RECURSIVE Join(_)
Join(ls) ==
  IF ls = <<>> THEN <<>>
  ELSE IF Len(ls) = 1 THEN ls[1]
  ELSE ls[1] \o <<"\n">> \o Join(Tail(ls))

\* allOutput.length > 0 ? `\n\nOutput:\n${allOutput.join('\n')}` : ''
OutputSuffix(allOutput) ==
  IF Len(allOutput) > 0 THEN <<"\n\nOutput:\n">> \o Join(allOutput) ELSE <<>>

\* The exit codes a subprocess is closed with.
ExitCodes == {0, 1}

\* The text before the exit code in the 'close' rejection of the call at p
ClosePrefix(p) ==
  CASE CallAt(p) = "runNpmInstall:payload" ->
         "npm install failed in payload with exit code "
    [] CallAt(p) = "runNpmInstall:web" ->
         "npm install failed in web with exit code "
    [] OTHER -> "Migration generation failed with exit code "

\* The text before err.message in the 'error' rejection of the call at p
ErrorPrefix(p) ==
  CASE CallAt(p) = "runNpmInstall:payload" ->
         "Failed to run npm install in payload: "
    [] CallAt(p) = "runNpmInstall:web" ->
         "Failed to run npm install in web: "
    [] OTHER -> "Failed to generate migrations: "

\* proc.on('close') that leaves errorOutput out of the message
onClose_noOutput(p, code, allOutput) ==
  IF code = 0
  THEN [settled |-> "resolve", err |-> NonError]
  ELSE [settled |-> "reject",
        err |-> Err(<<ClosePrefix(p), ToString(code)>>)]

\* proc.on('close', (code) => ...): resolve() on code 0, else reject with
\* the exit code and the retained output.
onClose(p, code, allOutput) ==
  IF code = 0
  THEN [settled |-> "resolve", err |-> NonError]
  ELSE [settled |-> "reject",
        err |-> Err(<<ClosePrefix(p), ToString(code)>>
                    \o OutputSuffix(allOutput))]

\* proc.on('error', (err) => ...): reject with err.message and the retained
\* output.
onError(p, allOutput) ==
  [settled |-> "reject",
   err |-> Err(<<ErrorPrefix(p), "spawn error">> \o OutputSuffix(allOutput))]

\* The ways the subprocess at p can settle its promise.
Settlements(p, allOutput) ==
  {onClose(p, code, allOutput) : code \in ExitCodes}
    \cup {onError(p, allOutput)}

\* --------------------------------------------------- waitForPayloadReady
\* Default parameters of waitForPayloadReady, the ones runProvisioning uses.
DefaultMaxAttempts == 60
DefaultIntervalMs == 5000
DefaultInitialDelayMs == 180000

\* `Payload CMS did not become ready after ${maxAttempts} attempts
\* (${(maxAttempts * intervalMs) / 1000}s)`
payloadTimeoutMessage(maxAttempts, intervalMs) ==
  << "Payload CMS did not become ready after ", ToString(maxAttempts),
     " attempts (", ToString((maxAttempts * intervalMs) \div 1000), "s)" >>

\* What one fetch of /api/users can come to: a thrown transport error or
\* a response with a status.
Statuses == {200, 204, 401, 403, 503}
Responses ==
  {[threw |-> TRUE, status |-> 0]}
    \cup {[threw |-> FALSE, status |-> st] : st \in Statuses}

\* response.status === 401 || response.status === 200 ||
\* response.status === 403
isReady(status) == status = 401 \/ status = 200 \/ status = 403

\* One loop iteration whose catch lets the transport error out
afterProbe_errorFatal(attempt, maxAttempts, response) ==
  IF response.threw THEN "thrown"
  ELSE IF isReady(response.status) THEN "returned"
  ELSE IF attempt < maxAttempts THEN "interval"
  ELSE "thrown"

\* One loop iteration that gives up one attempt early
afterProbe_oneShort(attempt, maxAttempts, response) ==
  IF ~response.threw /\ isReady(response.status) THEN "returned"
  ELSE IF attempt + 1 < maxAttempts THEN "interval"
  ELSE "thrown"

\* Where one iteration of the for loop leaves waitForPayloadReady after
\* its fetch came to response: returned, sleeping the interval, or (the
\* loop condition failing after the last attempt) at the final throw.
afterProbe(attempt, maxAttempts, response) ==
  IF ~response.threw /\ isReady(response.status) THEN "returned"
  ELSE IF attempt < maxAttempts THEN "interval"
  ELSE "thrown"

\* ---------------------------------------------- waitForWorkflowCompletion
\* The options runProvisioning passes, and the fixed delay before the
\* first poll.
WorkflowMaxWaitTime == 600000
WorkflowPollInterval == 10000
RegisterDelayMs == 5000

\* `Workflow did not complete within ${maxWaitTime / 1000 / 60} minutes`
workflowTimeoutMessage(maxWaitTime) ==
  << "Workflow did not complete within ",
     ToString((maxWaitTime \div 1000) \div 60), " minutes" >>

\* `Failed to check workflow status: ${error instanceof Error ?
\* error.message : 'Unknown error'}`
workflowCheckFailedMessage(err) ==
  <<"Failed to check workflow status: ">> \o MessageOf(err)

\* `GitHub Actions workflow failed with conclusion: ${conclusion}. View
\* details at: ${url}`
workflowFailedMessage(conclusion) ==
  <<"GitHub Actions workflow failed with conclusion: ">> \o conclusion
    \o <<". View details at: ", "url">>

\* What the call at position p can throw or reject with.
ThrownAt(p, allOutput) ==
  CASE CallAt(p) = "checkGhCliAvailable" -> {}
    [] CallAt(p) = "validateCachedFiles" ->
         {Err(<<"Missing cached files for --withTestValues mode">>)}
    [] IsSubprocess(p) ->
         {r.err : r \in {x \in Settlements(p, allOutput) :
                            x.settled = "reject"}}
    [] CallAt(p) = "waitForPayloadReady" ->
         {Err(payloadTimeoutMessage(DefaultMaxAttempts, DefaultIntervalMs))}
    [] CallAt(p) = "fetch:dispatches" ->
         {Err(<<"Failed to trigger deploy: 500">>),
          Err(<<"fetch failed">>), NonError}
    [] CallAt(p) = "waitForWorkflowCompletion" ->
         {Err(workflowFailedMessage(<<"failure">>)),
          Err(workflowTimeoutMessage(WorkflowMaxWaitTime)),
          Err(workflowCheckFailedMessage(Err(<<"fetch failed">>)))}
    [] OTHER -> {Err(<<CallAt(p), " failed">>), NonError}

\* The inner try/catch of steps 9, 10 and 12 re-throws a new Error whose
\* message prefixes the inner one; the other steps let the value through.
Rethrown(p, err) ==
  CASE StepAt(p) = 9 ->
         Err(<<"Payload CMS did not become ready: ">> \o MessageOf(err))
    [] StepAt(p) = 10 ->
         Err(<<"Failed to create Home page: ">> \o MessageOf(err))
    [] StepAt(p) = 12 ->
         Err(<<"Failed to complete GitHub Actions workflow: ">>
             \o MessageOf(err))
    [] OTHER -> err

PreflightMessage == <<"Directory already exists in the current directory.">>

\* ---------------------------------------------------------------- rollback
Credentials == <<"claudeApiKey", "railwayToken", "githubToken">>
NoResources == [githubRepo |-> Undefined, railwayProjectId |-> Undefined]

\* the delete call without its try/catch: a throw propagates
tryDelete_noCatch(outcome) == IF outcome = "throws" THEN "thrown" ELSE "normal"

\* try { await deleteX(...) } catch { /* ignore */ } : how the statement
\* completes given the outcome of the delete call.
tryDelete(outcome) == "normal"

\* rollback with one try/catch around both deletions: the first failing
\* delete ends the clean-up (silently)
rollback_singleTry(creds, resources, ghOutcome, rwOutcome) ==
  IF creds = Undefined
  THEN [calls |-> <<>>, completion |-> "normal"]
  ELSE
    LET gh == IF resources.githubRepo # Undefined
              THEN <<[fn |-> "deleteGitHubRepo",
                      arg |-> resources.githubRepo, outcome |-> ghOutcome]>>
              ELSE <<>>
        rw == IF resources.railwayProjectId # Undefined
              THEN <<[fn |-> "deleteRailwayProject",
                      arg |-> resources.railwayProjectId,
                      outcome |-> rwOutcome]>>
              ELSE <<>>
    IN IF gh # <<>> /\ ghOutcome = "throws"
       THEN [calls |-> gh, completion |-> "normal"]
       ELSE [calls |-> gh \o rw, completion |-> "normal"]

\* rollback deleting the Railway project first
rollback_projectFirst(creds, resources, ghOutcome, rwOutcome) ==
  IF creds = Undefined
  THEN [calls |-> <<>>, completion |-> "normal"]
  ELSE
    LET gh == IF resources.githubRepo # Undefined
              THEN <<[fn |-> "deleteGitHubRepo",
                      arg |-> resources.githubRepo, outcome |-> ghOutcome]>>
              ELSE <<>>
        rw == IF resources.railwayProjectId # Undefined
              THEN <<[fn |-> "deleteRailwayProject",
                      arg |-> resources.railwayProjectId,
                      outcome |-> rwOutcome]>>
              ELSE <<>>
    IN [calls |-> rw \o gh, completion |-> "normal"]

\* rollback(): the delete calls it issues, in order, and how it completes.
\* ghOutcome / rwOutcome are what deleteGitHubRepo / deleteRailwayProject do
\* when called ("ok" or "throws").
rollback(creds, resources, ghOutcome, rwOutcome) ==
  IF creds = Undefined
  THEN [calls |-> <<>>, completion |-> "normal"]
  ELSE
    LET gh == IF resources.githubRepo # Undefined
              THEN <<[fn |-> "deleteGitHubRepo",
                      arg |-> resources.githubRepo, outcome |-> ghOutcome]>>
              ELSE <<>>
        ghDone == IF gh # <<>> THEN tryDelete(ghOutcome) ELSE "normal"
        rw == IF resources.railwayProjectId # Undefined
              THEN <<[fn |-> "deleteRailwayProject",
                      arg |-> resources.railwayProjectId,
                      outcome |-> rwOutcome]>>
              ELSE <<>>
        rwDone == IF rw # <<>> THEN tryDelete(rwOutcome) ELSE "normal"
    IN IF ghDone # "normal"
       THEN [calls |-> gh, completion |-> ghDone]
       ELSE [calls |-> gh \o rw, completion |-> rwDone]

\* ------------------------------------------------------------------ state
VARIABLES
  step,              \* useState<CLIStep>
  credentials,       \* useState<Credentials | null>
  projectConfig,     \* useState<ProjectConfig | null>
  provisioningSteps, \* useState<ProvisioningStep[]>
  finalResult,       \* useState<{cmsUrl, repoUrl, websiteUrl} | null>
  error,             \* useState<string | null>
  createdResources,  \* useState<{githubRepo?, railwayProjectId?}>
  withTestValues,    \* prop of App
  effectPending,     \* the [step] effect has been scheduled and not yet run
  pc,                \* 0: no run in flight; p: awaiting the call Pipeline[p]
  cSteps,            \* provisioningSteps as closed over by the running run
  cResources,        \* createdResources as closed over by the running run
  projectId,         \* local of runProvisioning
  githubRepo,        \* local of runProvisioning
  win,               \* outputLines / allOutput of the running subprocess
  emitted,           \* lines the running subprocess has emitted so far
  runs,              \* runProvisioning invocations so far
  calls,             \* history: collaborator calls issued by the last run
  recorded,          \* history: setCreatedResources calls of the last run
  deleteCalls,       \* history: delete calls issued by the last run
  rollbacks,         \* history: rollback() invocations of the last run
  failure,           \* history: <<step index, message>> caught by the run
  unhandled,         \* runProvisioning's promise rejected
  poll,              \* the readiness poller in flight, PollIdle if none
  collections,       \* App state: the generated collections
  llmRetries,        \* App state: generation retries left
  llmError,          \* App state: message of the last generation error
  dm,                \* the DataManagement component, DmIdle if not mounted
  dp                 \* the DeleteProject component, DpIdle if not mounted

vars == << step, credentials, projectConfig, provisioningSteps, finalResult,
           error, createdResources, withTestValues, effectPending, pc,
           cSteps, cResources, projectId, githubRepo, win, emitted, runs,
           calls, recorded, deleteCalls, rollbacks, failure, unhandled,
           poll, collections, llmRetries, llmError, dm, dp >>

llmVars == << collections, llmRetries, llmError >>
viewVars == << dm, dp >>

uiVars == << step, credentials, projectConfig, provisioningSteps,
             finalResult, error, createdResources >>
runVars == << pc, cSteps, cResources, projectId, githubRepo, win, emitted,
              runs >>
histVars == << calls, recorded, deleteCalls, rollbacks, failure, unhandled >>

Slugs == {"site-a"}
Repos == {<<"owner", s>> : s \in Slugs}
ProjectIds == {<<"project", n>> : n \in 1..MaxRuns}
EmptyWindows == [outputLines |-> <<>>, allOutput |-> <<>>]
PollIdle == [fn |-> "none"]
DmIdle == [step |-> "none"]
DpIdle == [step |-> "none"]

\* State after the first render of App (debug flags off).
Init ==
  /\ step = "auth-check"
  /\ credentials = Undefined
  /\ projectConfig = Undefined
  /\ provisioningSteps = <<>>
  /\ finalResult = Undefined
  /\ error = Undefined
  /\ createdResources = NoResources
  /\ withTestValues \in BOOLEAN
  /\ effectPending = FALSE
  /\ pc = 0
  /\ cSteps = <<>>
  /\ cResources = NoResources
  /\ projectId = Undefined
  /\ githubRepo = Undefined
  /\ win = EmptyWindows
  /\ emitted = 0
  /\ runs = 0
  /\ calls = <<>>
  /\ recorded = <<>>
  /\ deleteCalls = <<>>
  /\ rollbacks = 0
  /\ failure = Undefined
  /\ unhandled = FALSE
  /\ collections = <<>>
  /\ llmRetries = MAX_LLM_RETRIES
  /\ llmError = Undefined
  /\ dm = DmIdle
  /\ dp = DpIdle
  /\ poll = PollIdle

\* ------------------------------------------------------------- UI handlers
handleAuthComplete ==
  /\ step = "auth-check"
  /\ credentials' = Credentials
  /\ step' = "mode-selection"
  /\ UNCHANGED << projectConfig, provisioningSteps, finalResult, error,
                  createdResources, withTestValues, llmVars, viewVars, poll, effectPending >>
  /\ UNCHANGED << runVars, histVars >>

handleModeStartNew ==
  /\ step = "mode-selection"
  /\ runs < MaxRuns
  /\ step' = "questionnaire"
  /\ UNCHANGED << credentials, projectConfig, provisioningSteps, finalResult,
                  error, createdResources, withTestValues, llmVars, viewVars, poll, effectPending >>
  /\ UNCHANGED << runVars, histVars >>

\* handleQuestionnaireComplete for a config whose collectionDescription is
\* blank: setProjectConfig(config); setStep('provisioning').  The render
\* that follows schedules the [step] effect.
handleQuestionnaireComplete ==
  /\ step = "questionnaire"
  /\ \E slug \in Slugs : projectConfig' = <<slug>>
  /\ step' = "provisioning"
  /\ effectPending' = TRUE
  /\ UNCHANGED << credentials, provisioningSteps, finalResult, error,
                  createdResources, withTestValues, llmVars, viewVars, poll >>
  /\ UNCHANGED << runVars, histVars >>

\* ProjectComplete / ProjectError are rendered only with a result / error.
handleReturnToMenu ==
  /\ \/ step = "complete" /\ finalResult # Undefined
     \/ step = "error" /\ error # Undefined
  /\ projectConfig' = Undefined
  /\ finalResult' = Undefined
  /\ error' = Undefined
  /\ createdResources' = NoResources
  /\ collections' = <<>>
  /\ llmRetries' = MAX_LLM_RETRIES
  /\ llmError' = Undefined
  /\ step' = "mode-selection"
  /\ UNCHANGED << credentials, provisioningSteps, withTestValues, viewVars,
                  poll, effectPending >>
  /\ UNCHANGED << runVars, histVars >>

\* --------------------------------------------------------- runProvisioning
\* The pre-flight check without its return: the run goes on into step 0
AfterPreflight_noReturn(dirExists) ==
  [steps |-> updateStep(InitialSteps, 0, "in_progress", Undefined, Undefined),
   pc    |-> 1,
   calls |-> <<CallAt(1)>>]

\* Where runProvisioning stands after setProvisioningSteps(steps) and the
\* existsSync(targetDir) check: returned (pc 0) with the initial timeline
\* when the directory exists, else inside step 0 awaiting scaffoldProject.
AfterPreflight(dirExists) ==
  IF dirExists
  THEN [steps |-> InitialSteps, pc |-> 0, calls |-> <<>>]
  ELSE [steps |-> updateStep(InitialSteps, 0, "in_progress",
                             Undefined, Undefined),
        pc    |-> 1,
        calls |-> <<CallAt(1)>>]

\* The [step] effect and runProvisioning up to its first await.  The closure
\* it runs in is the one of the render that scheduled the effect.
\* dirExists is existsSync(targetDir).
runProvisioningStart ==
  /\ effectPending
  /\ step = "provisioning" /\ projectConfig # Undefined
  /\ credentials # Undefined
  /\ effectPending' = FALSE
  /\ cSteps' = provisioningSteps
  /\ cResources' = createdResources
  /\ runs' = runs + 1
  /\ projectId' = Undefined
  /\ githubRepo' = Undefined
  /\ win' = EmptyWindows
  /\ emitted' = 0
  /\ recorded' = <<>>
  /\ deleteCalls' = <<>>
  /\ rollbacks' = 0
  /\ failure' = Undefined
  /\ \E dirExists \in BOOLEAN :
       LET after == AfterPreflight(dirExists)
       IN /\ provisioningSteps' = after.steps
          /\ pc' = after.pc
          /\ calls' = after.calls
          /\ IF dirExists
             THEN /\ step' = "error"
                  /\ error' = PreflightMessage
             ELSE UNCHANGED << step, error >>
  /\ UNCHANGED << credentials, projectConfig, finalResult, createdResources,
                  withTestValues, llmVars, viewVars, poll, unhandled >>

\* AfterReturn that never opens the next step
AfterReturn_noStart(steps, p, n) ==
  IF n = Finished \/ StepAt(n) # StepAt(p)
  THEN updateStep(steps, StepAt(p), "complete", Undefined, Undefined)
  ELSE steps

\* AfterReturn that leaves the last step of the run in_progress
AfterReturn_lastOpen(steps, p, n) ==
  IF n = Finished THEN steps
  ELSE IF StepAt(n) # StepAt(p)
  THEN updateStep(updateStep(steps, StepAt(p), "complete",
                             Undefined, Undefined),
                  StepAt(n), "in_progress", Undefined, Undefined)
  ELSE steps

\* The timeline after the call at p has returned and the next call is at n:
\* updateStep(k, 'complete') when p was the last call of step k, followed by
\* updateStep(k', 'in_progress') when n opens step k'.
AfterReturn(steps, p, n) ==
  LET closes == n = Finished \/ StepAt(n) # StepAt(p)
      done == IF closes
              THEN updateStep(steps, StepAt(p), "complete",
                              Undefined, Undefined)
              ELSE steps
  IN IF closes /\ n # Finished
     THEN updateStep(done, StepAt(n), "in_progress", Undefined, Undefined)
     ELSE done

\* setCreatedResources((r) => ({ ...r, railwayProjectId: projectId }))
recordProject(r, id) == [r EXCEPT !.railwayProjectId = id]

\* setCreatedResources that drops the spread of the previous value
recordRepo_noSpread(r, repo) ==
  [githubRepo |-> repo, railwayProjectId |-> Undefined]

\* setCreatedResources((r) => ({ ...r, githubRepo: { owner, repo } }))
recordRepo(r, repo) == [r EXCEPT !.githubRepo = repo]

\* The awaited call returns (a subprocess closes with code 0) and
\* runProvisioning continues to its next await, or to its end.
callReturns ==
  /\ pc \in Positions
  /\ \E ret \in BOOLEAN :
       LET n == NextPos(pc, ret, withTestValues) IN
       /\ CallAt(pc) # "checkGhCliAvailable" => ret
       /\ IsSubprocess(pc) =>
            \E x \in Settlements(pc, win.allOutput) : x.settled = "resolve"
       /\ provisioningSteps' = AfterReturn(provisioningSteps, pc, n)
       /\ IF n = Finished
          THEN /\ finalResult' = <<"cmsUrl", "repoUrl", "websiteUrl">>
               /\ step' = "complete"
               /\ pc' = 0
               /\ calls' = calls
          ELSE /\ pc' = n
               /\ calls' = Append(calls, CallAt(n))
               /\ UNCHANGED << finalResult, step >>
  /\ IF CallAt(pc) = "createRailwayProject"
     THEN /\ projectId' = <<"project", runs>>
          /\ createdResources' =
               recordProject(createdResources, <<"project", runs>>)
          /\ recorded' = Append(recorded, "railwayProjectId")
          /\ UNCHANGED githubRepo
     ELSE IF CallAt(pc) = "createGitHubRepo"
     THEN /\ githubRepo' = <<"owner", projectConfig[1]>>
          /\ createdResources' =
               recordRepo(createdResources, <<"owner", projectConfig[1]>>)
          /\ recorded' = Append(recorded, "githubRepo")
          /\ UNCHANGED projectId
     ELSE UNCHANGED << projectId, githubRepo, createdResources, recorded >>
  /\ win' = EmptyWindows
  /\ emitted' = 0
  /\ UNCHANGED << credentials, projectConfig, error, withTestValues, llmVars, viewVars, poll,
                  effectPending, cSteps, cResources, runs, deleteCalls,
                  rollbacks, failure, unhandled >>

\* The catch block of runProvisioning for a caught message: the timeline
\* after "Mark current step as error".  stale is the provisioningSteps value
\* the closure reads.
markCurrentStep(steps, stale, message) ==
  LET currentIdx == findIndexInProgress(stale)
  IN IF currentIdx >= 0
     THEN updateStep(steps, currentIdx, "error", message, Undefined)
     ELSE steps

\* The awaited call throws / rejects: the inner try/catch of the step (if
\* any), then the catch block of runProvisioning including rollback().
callThrows ==
  /\ pc \in Positions
  /\ \E err \in ThrownAt(pc, win.allOutput), ghOutcome \in {"ok", "throws"},
        rwOutcome \in {"ok", "throws"} :
       LET message == MessageOf(Rethrown(pc, err))
           rb == rollback(credentials, cResources, ghOutcome, rwOutcome)
       IN /\ error' = message
          /\ provisioningSteps' =
               markCurrentStep(provisioningSteps, cSteps, message)
          /\ step' = "error"
          /\ deleteCalls' = deleteCalls \o rb.calls
          /\ rollbacks' = rollbacks + 1
          /\ unhandled' = (unhandled \/ rb.completion # "normal")
          /\ failure' = <<StepAt(pc), message>>
  /\ pc' = 0
  /\ win' = EmptyWindows
  /\ emitted' = 0
  /\ UNCHANGED << credentials, projectConfig, finalResult, createdResources,
                  withTestValues, llmVars, viewVars, poll, effectPending, cSteps, cResources,
                  projectId, githubRepo, runs, calls, recorded >>

\* A stdout / stderr line of the running subprocess reaches addLine.
onData ==
  /\ pc \in Positions
  /\ IsSubprocess(pc)
  /\ emitted < MaxOutput
  /\ \E line \in Lines :
       LET r == addLine(win, line) IN
       /\ win' = [outputLines |-> r.outputLines, allOutput |-> r.allOutput]
       /\ provisioningSteps' =
            IF r.update
            THEN updateStep(provisioningSteps, StepAt(pc), "in_progress",
                            Undefined, r.outputLines)
            ELSE provisioningSteps
  /\ emitted' = emitted + 1
  /\ UNCHANGED << step, credentials, projectConfig, finalResult, error,
                  createdResources, withTestValues, llmVars, viewVars, poll, effectPending, pc,
                  cSteps, cResources, projectId, githubRepo, runs >>
  /\ UNCHANGED histVars

\* lines.forEach(addLine): the windows and the timeline after the lines of
\* one data event went through addLine in order.
RECURSIVE forEachAddLine(_, _, _, _)
forEachAddLine(w, steps, index, lines) ==
  IF lines = <<>>
  THEN [win |-> w, steps |-> steps]
  ELSE LET r == addLine(w, Head(lines))
       IN forEachAddLine(
            [outputLines |-> r.outputLines, allOutput |-> r.allOutput],
            IF r.update
            THEN updateStep(steps, index, "in_progress", Undefined,
                            r.outputLines)
            ELSE steps,
            index, Tail(lines))

\* proc.stdout.on('data', ...) and proc.stderr.on('data', ...): the two
\* handlers have the same body, run for a chunk of either stream.
Streams == {"stdout", "stderr"}

dataHandler ==
  /\ pc \in Positions
  /\ IsSubprocess(pc)
  /\ \E stream \in Streams, chunk \in Chunks :
       LET r == forEachAddLine(win, provisioningSteps, StepAt(pc), chunk)
       IN /\ win' = r.win
          /\ provisioningSteps' = r.steps
  /\ UNCHANGED << step, credentials, projectConfig, finalResult, error,
                  createdResources, withTestValues, llmVars, viewVars, poll, effectPending, pc,
                  cSteps, cResources, projectId, githubRepo, emitted, runs >>
  /\ UNCHANGED histVars

\* The (status, conclusion) pairs a workflow run can show on a poll.
RunStates == { <<"queued", Undefined>>, <<"in_progress", Undefined>>,
               <<"completed", <<"success">> >>,
               <<"completed", <<"failure">> >> }

\* const details = [`Status: ${status}`];
\* if (conclusion) details.push(`Conclusion: ${conclusion}`)
progressDetails(status, conclusion) ==
  IF conclusion # Undefined
  THEN << <<"Status: ", status>>, <<"Conclusion: ">> \o conclusion >>
  ELSE << <<"Status: ", status>> >>

\* The onProgress callback passed to waitForWorkflowCompletion.
onProgress ==
  /\ pc \in Positions
  /\ CallAt(pc) = "waitForWorkflowCompletion"
  /\ \E rs \in RunStates :
       provisioningSteps' =
         updateStep(provisioningSteps, 12, "in_progress",
                    Undefined, progressDetails(rs[1], rs[2]))
  /\ UNCHANGED << step, credentials, projectConfig, finalResult, error,
                  createdResources, withTestValues, llmVars, viewVars, poll, effectPending >>
  /\ UNCHANGED << runVars, histVars >>

RunNext ==
  \/ runProvisioningStart
  \/ callReturns
  \/ callThrows
  \/ onData
  \/ onProgress

Next ==
  \/ handleAuthComplete
  \/ handleModeStartNew
  \/ handleQuestionnaireComplete
  \/ handleReturnToMenu
  \/ RunNext

Spec == Init /\ [][Next]_vars

\* ------------------------------------------------- one run, any closure
\* runProvisioning as a function of the values its closure captured: one
\* invocation whose render-time createdResources is drawn from every
\* combination of recorded resources.  (In Spec the render that starts a run
\* always has createdResources = {}.)
ClosureRepos == {<<"owner", "site-a">>, <<"owner", "old-site">>}
ClosureProjects == {<<"project", 1>>, <<"project", 7>>}

InitClosure ==
  /\ step = "provisioning"
  /\ credentials = Credentials
  /\ projectConfig \in {<<slug>> : slug \in Slugs}
  /\ provisioningSteps = <<>>
  /\ finalResult = Undefined
  /\ error = Undefined
  /\ createdResources \in
       [githubRepo : {Undefined} \cup ClosureRepos,
        railwayProjectId : {Undefined} \cup ClosureProjects]
  /\ withTestValues \in BOOLEAN
  /\ effectPending = TRUE
  /\ pc = 0
  /\ cSteps = <<>>
  /\ cResources = NoResources
  /\ projectId = Undefined
  /\ githubRepo = Undefined
  /\ win = EmptyWindows
  /\ emitted = 0
  /\ runs = 0
  /\ calls = <<>>
  /\ recorded = <<>>
  /\ deleteCalls = <<>>
  /\ rollbacks = 0
  /\ failure = Undefined
  /\ unhandled = FALSE
  /\ collections = <<>>
  /\ llmRetries = MAX_LLM_RETRIES
  /\ llmError = Undefined
  /\ dm = DmIdle
  /\ dp = DpIdle
  /\ poll = PollIdle

SpecClosure == InitClosure /\ [][RunNext]_vars

\* ----------------------------------------------------- subprocess output
\* A first run that passed the pre-flight check, with data events of any
\* number of lines while a subprocess is running.
InitProc ==
  /\ step = "provisioning"
  /\ credentials = Credentials
  /\ projectConfig \in {<<slug>> : slug \in Slugs}
  /\ provisioningSteps = AfterPreflight(FALSE).steps
  /\ finalResult = Undefined
  /\ error = Undefined
  /\ createdResources = NoResources
  /\ withTestValues \in BOOLEAN
  /\ effectPending = FALSE
  /\ pc = AfterPreflight(FALSE).pc
  /\ cSteps = <<>>
  /\ cResources = NoResources
  /\ projectId = Undefined
  /\ githubRepo = Undefined
  /\ win = EmptyWindows
  /\ emitted = 0
  /\ runs = 1
  /\ calls = AfterPreflight(FALSE).calls
  /\ recorded = <<>>
  /\ deleteCalls = <<>>
  /\ rollbacks = 0
  /\ failure = Undefined
  /\ unhandled = FALSE
  /\ collections = <<>>
  /\ llmRetries = MAX_LLM_RETRIES
  /\ llmError = Undefined
  /\ dm = DmIdle
  /\ dp = DpIdle
  /\ poll = PollIdle

NextProc == dataHandler \/ callReturns \/ callThrows

SpecProc == InitProc /\ [][NextProc]_vars

\* --------------------------------------------------------- DataManagement
\* App at step appStep with credentials and no provisioning run.
AppView(appStep) ==
  /\ step = appStep
  /\ credentials = Credentials
  /\ projectConfig = Undefined
  /\ provisioningSteps = <<>>
  /\ finalResult = Undefined
  /\ error = Undefined
  /\ createdResources = NoResources
  /\ withTestValues \in BOOLEAN
  /\ effectPending = FALSE
  /\ pc = 0
  /\ cSteps = <<>>
  /\ cResources = NoResources
  /\ projectId = Undefined
  /\ githubRepo = Undefined
  /\ win = EmptyWindows
  /\ emitted = 0
  /\ runs = 0
  /\ calls = <<>>
  /\ recorded = <<>>
  /\ deleteCalls = <<>>
  /\ rollbacks = 0
  /\ failure = Undefined
  /\ unhandled = FALSE
  /\ collections = <<>>
  /\ llmRetries = MAX_LLM_RETRIES
  /\ llmError = Undefined

\* The same with no awaited call in flight.
AppAt(appStep) ==
  /\ AppView(appStep)
  /\ poll = PollIdle

\* Everything but the DataManagement component stays as it is.
dmFrame ==
  UNCHANGED << uiVars, withTestValues, effectPending, runVars, histVars,
               poll, llmVars, dp >>

\* The ids of the registered seed sets.
seedSets == {"company-starter", "artist-starter"}

\* testPayloadConnection: true for a 401, 200 or 403 answer, false for any
\* other answer and for a thrown fetch.
testPayloadConnection(response) ==
  IF response.threw THEN FALSE
  ELSE response.status = 401 \/ response.status = 200
         \/ response.status = 403

\* The component as mounted.
DmStart ==
  [step         |-> "input-name",
   environment  |-> "railway",
   selectedSeed |-> Undefined,
   result       |-> Undefined,
   confirmed    |-> Undefined,
   executed     |-> Undefined]

dmHandleNameSubmit ==
  /\ dm.step = "input-name"
  /\ dm' = [dm EXCEPT !.step = "select-environment"]
  /\ dmFrame

dmHandleEnvironmentSelect ==
  /\ dm.step = "select-environment"
  /\ \E value \in {"railway", "local"} :
       dm' = [dm EXCEPT !.environment = value, !.step = "input-email"]
  /\ dmFrame

dmHandleEmailSubmit ==
  /\ dm.step = "input-email"
  /\ dm' = [dm EXCEPT !.step = "input-password"]
  /\ dmFrame

dmHandlePasswordSubmit ==
  /\ dm.step = "input-password"
  /\ dm' = [dm EXCEPT !.step = "connecting"]
  /\ dmFrame

\* connectToPayload, run by the effect of step 'connecting'.  found is
\* whether getPayloadUrlFromRailway returned a URL, authOk whether
\* authenticatePayload returned a token.
connectToPayload ==
  /\ dm.step = "connecting"
  /\ \E found \in BOOLEAN, response \in Responses, authOk \in BOOLEAN :
       dm' = [dm EXCEPT !.step =
                IF dm.environment = "railway" /\ ~found THEN "error"
                ELSE IF ~testPayloadConnection(response) THEN "error"
                ELSE IF ~authOk THEN "error"
                ELSE "select-action"]
  /\ dmFrame

dmHandleActionSelect ==
  /\ dm.step = "select-action"
  /\ \E value \in {"erase", "seed", "cancel"} :
       dm' = IF value = "erase" THEN [dm EXCEPT !.step = "confirm-erase"]
             ELSE IF value = "seed" THEN [dm EXCEPT !.step = "select-seed"]
             ELSE DmIdle
  /\ dmFrame

handleEraseConfirm ==
  /\ dm.step = "confirm-erase"
  /\ \E value \in {"yes", "no"} :
       dm' = IF value = "yes"
             THEN [dm EXCEPT !.step = "executing", !.confirmed = <<"erase">>]
             ELSE [dm EXCEPT !.step = "select-action"]
  /\ dmFrame

handleSeedSelect ==
  /\ dm.step = "select-seed"
  /\ \E value \in seedSets \cup {"cancel"} :
       dm' = IF value = "cancel"
             THEN [dm EXCEPT !.step = "select-action"]
             ELSE [dm EXCEPT !.selectedSeed = <<value>>,
                             !.step = "confirm-seed"]
  /\ dmFrame

handleSeedConfirm ==
  /\ dm.step = "confirm-seed"
  /\ \E value \in {"yes", "no"} :
       dm' = IF value = "yes"
             THEN [dm EXCEPT !.step = "executing",
                             !.confirmed = <<"seed">> \o dm.selectedSeed]
             ELSE [dm EXCEPT !.step = "select-seed"]
  /\ dmFrame

\* if (selectedSeed) seedContent(..., selectedSeed.pages, ...)
\* else eraseAllContent(...)
operationFor(selectedSeed, confirmed) ==
  IF selectedSeed # Undefined THEN <<"seedContent">> \o selectedSeed
  ELSE <<"eraseAllContent">>

\* executeOperation, run by the effect of step 'executing'.
executeOperation ==
  /\ dm.step = "executing"
  /\ \E ok \in BOOLEAN :
       dm' = [dm EXCEPT
         !.executed = operationFor(dm.selectedSeed, dm.confirmed),
         !.result = IF ok THEN <<"success">> ELSE <<"Operation failed">>,
         !.step = "complete"]
  /\ dmFrame

\* Enter on the result or error screen: onComplete unmounts the component.
dmHandleReturnToMenu ==
  /\ dm.step \in {"complete", "error"}
  /\ dm' = DmIdle
  /\ dmFrame

\* The component is not mounted by App in this source; App stays on its
\* menu while it is shown.
InitData == AppAt("mode-selection") /\ dm = DmStart /\ dp = DpIdle

NextData ==
  \/ dmHandleNameSubmit
  \/ dmHandleEnvironmentSelect
  \/ dmHandleEmailSubmit
  \/ dmHandlePasswordSubmit
  \/ connectToPayload
  \/ dmHandleActionSelect
  \/ handleEraseConfirm
  \/ handleSeedSelect
  \/ handleSeedConfirm
  \/ executeOperation
  \/ dmHandleReturnToMenu

SpecData == InitData /\ [][NextData]_vars

\* ---------------------------------------------------- collection generation
\* What generateCollections can return: LLMResponseSchema takes any array
\* of collections, the empty one included.
GeneratedSets ==
  { <<>>, <<"Posts">>, <<"Events">>, <<"Authors">>, <<"Posts", "Events">>,
    <<"Posts", "Authors">>, <<"Events", "Authors">>,
    <<"Posts", "Events", "Authors">> }

\* What generateCollections can throw.
GenerationErrors ==
  { Err(<<"No text response from Claude">>),
    Err(<<"Failed to parse LLM response as JSON: ", "text">>),
    Err(<<"Invalid collection schema: ", "Required">>),
    NonError }

\* The feedback the user types when rejecting a preview.
Feedbacks == { <<>>, <<"add an author field">> }

\* generateCollectionsFromDescription up to its await.  retriesSeen is
\* llmRetries as the closure of the calling handler holds it.
GenerationStart(retriesSeen, feedback, previousCollections) ==
  [fn                  |-> "generateCollections",
   retriesSeen         |-> retriesSeen,
   feedback            |-> feedback,
   previousCollections |-> previousCollections]

llmFrame ==
  UNCHANGED << credentials, provisioningSteps, finalResult, error,
               createdResources, withTestValues, runVars, histVars,
               viewVars >>

\* handleQuestionnaireComplete for a config with a description: the
\* handler is memoized on [credentials], so it holds the llmRetries of the
\* render that followed setCredentials, which is the initial value.
handleQuestionnaireCompleteDescribed ==
  /\ step = "questionnaire"
  /\ credentials # Undefined
  /\ \E slug \in Slugs : projectConfig' = <<slug>>
  /\ step' = "collection-generation"
  /\ llmError' = Undefined
  /\ poll' = GenerationStart(MAX_LLM_RETRIES, Undefined, Undefined)
  /\ UNCHANGED << collections, llmRetries, effectPending >>
  /\ llmFrame

\* generateCollections returned.
generationSucceeds ==
  /\ poll.fn = "generateCollections"
  /\ \E generated \in GeneratedSets : collections' = generated
  /\ step' = "collection-preview"
  /\ poll' = PollIdle
  /\ UNCHANGED << projectConfig, llmRetries, llmError, effectPending >>
  /\ llmFrame

\* generateCollections threw: the catch block.
generationFails ==
  /\ poll.fn = "generateCollections"
  /\ \E err \in GenerationErrors : llmError' = MessageOf(err)
  /\ IF poll.retriesSeen > 1
     THEN /\ llmRetries' = llmRetries - 1
          /\ UNCHANGED << collections, step, effectPending >>
     ELSE /\ collections' = <<>>
          /\ step' = "provisioning"
          /\ effectPending' = TRUE
          /\ UNCHANGED llmRetries
  /\ poll' = PollIdle
  /\ UNCHANGED projectConfig
  /\ llmFrame

\* The preview is rendered only for a non-empty collections list.
PreviewRendered == step = "collection-preview" /\ Len(collections) > 0

handleCollectionAccept ==
  /\ PreviewRendered
  /\ step' = "provisioning"
  /\ effectPending' = TRUE
  /\ UNCHANGED << projectConfig, poll, llmVars >>
  /\ llmFrame

\* handleCollectionReject is memoized on [projectConfig, credentials,
\* collections]: its closure dates from the render that followed the last
\* setCollections, since when llmRetries has not changed.
handleCollectionReject ==
  /\ PreviewRendered
  /\ projectConfig # Undefined
  /\ step' = "collection-generation"
  /\ llmError' = Undefined
  /\ \E feedback \in Feedbacks :
       poll' = GenerationStart(llmRetries, feedback,
                 IF Len(collections) > 0 THEN collections ELSE Undefined)
  /\ UNCHANGED << projectConfig, collections, llmRetries, effectPending >>
  /\ llmFrame

InitLlm == AppAt("questionnaire") /\ dm = DmIdle /\ dp = DpIdle

NextLlm ==
  \/ handleQuestionnaireComplete
  \/ handleQuestionnaireCompleteDescribed
  \/ generationSucceeds
  \/ generationFails
  \/ handleCollectionAccept
  \/ handleCollectionReject
  \/ runProvisioningStart

SpecLlm == InitLlm /\ [][NextLlm]_vars

\* The request to Claude settles: the awaited generateCollections call
\* returns or throws.  Nothing is assumed of the user.
FairSpecLlm ==
  SpecLlm /\ WF_vars(generationSucceeds \/ generationFails)

\* ---------------------------------------------------------- DeleteProject
\* What the user can have typed into the name field.
NameInputs == { <<>>, <<" ">>, <<"a">>, <<" ", "b">> }

\* The component as mounted.  ops lists the requests and filesystem calls
\* performDeletion has issued; confirm and localChoice are the items the
\* user selected; at is the try block performDeletion stands before.
DpStart ==
  [step           |-> "input-name",
   inputValue     |-> <<>>,
   projectName    |-> <<>>,
   result         |-> Undefined,
   localDirExists |-> FALSE,
   deleteLocalDir |-> FALSE,
   at             |-> "none",
   ops            |-> <<>>,
   confirm        |-> Undefined,
   localChoice    |-> Undefined]

\* Everything but the DeleteProject component stays as it is.
dpFrame ==
  UNCHANGED << credentials, projectConfig, provisioningSteps, finalResult,
               error, createdResources, withTestValues, effectPending,
               runVars, histVars, poll, llmVars, dm >>

handleModeDelete ==
  /\ step = "mode-selection"
  /\ step' = "delete-project"
  /\ dp' = DpStart
  /\ dpFrame

\* onCancel of the mounted component.
handleDeleteCancel ==
  /\ step' = "mode-selection"
  /\ dp' = [dp EXCEPT !.step = "none", !.confirm = <<"no">>]
  /\ dpFrame

\* onChange of the name field.
setInputValue ==
  /\ step = "delete-project"
  /\ dp.step = "input-name"
  /\ \E value \in NameInputs : dp' = [dp EXCEPT !.inputValue = value]
  /\ UNCHANGED step
  /\ dpFrame

\* exists is what existsSync answers for join(cwd, name).
dpHandleNameSubmit ==
  /\ step = "delete-project"
  /\ dp.step = "input-name"
  /\ Trim(dp.inputValue) # <<>>
  /\ \E exists \in BOOLEAN :
       dp' = [dp EXCEPT !.projectName = Trim(dp.inputValue),
                        !.inputValue = <<>>,
                        !.localDirExists = exists,
                        !.deleteLocalDir = exists,
                        !.step = "confirm"]
  /\ UNCHANGED step
  /\ dpFrame

handleConfirmSelect ==
  /\ step = "delete-project"
  /\ dp.step = "confirm"
  /\ \E value \in {"yes", "no"} :
       IF value = "yes"
       THEN /\ dp' = [dp EXCEPT !.confirm = <<"yes">>,
                                !.step = IF dp.localDirExists
                                         THEN "confirm-local-dir"
                                         ELSE "deleting"]
            /\ UNCHANGED step
            /\ dpFrame
       ELSE handleDeleteCancel

handleLocalDirSelect ==
  /\ step = "delete-project"
  /\ dp.step = "confirm-local-dir"
  /\ \E value \in {"yes", "no"} :
       dp' = [dp EXCEPT !.deleteLocalDir = (value = "yes"),
                        !.localChoice = <<value>>,
                        !.step = "deleting"]
  /\ UNCHANGED step
  /\ dpFrame

\* The effect of step 'deleting' calls performDeletion, which starts with
\* an empty result.
performDeletion ==
  /\ step = "delete-project"
  /\ dp.step = "deleting"
  /\ dp.at = "none"
  /\ dp' = [dp EXCEPT !.at = "railway",
                      !.result = [railway |-> [success |-> FALSE, message |-> <<>>],
                                  github  |-> [success |-> FALSE, message |-> <<>>]]]
  /\ UNCHANGED step
  /\ dpFrame

\* First try block: look the project up by name and delete it.
RailwayOutcomes == {"findThrows", "notFound", "deleteThrows", "deleted"}

deleteRailway ==
  /\ step = "delete-project"
  /\ dp.at = "railway"
  /\ \E outcome \in RailwayOutcomes :
       dp' = [dp EXCEPT
                !.ops = dp.ops \o
                          (IF outcome \in {"deleteThrows", "deleted"}
                           THEN <<"findRailwayProjectByName",
                                  "deleteRailwayProject">>
                           ELSE <<"findRailwayProjectByName">>),
                !.result.railway =
                   CASE outcome = "deleted" ->
                          [success |-> TRUE,
                           message |-> <<"Deleted successfully">>]
                     [] outcome = "notFound" ->
                          [success |-> FALSE,
                           message |-> <<"Project not found (may already be deleted)">>]
                     [] OTHER ->
                          [success |-> FALSE, message |-> <<"Error">>],
                !.at = "github"]
  /\ UNCHANGED step
  /\ dpFrame

\* Second try block: the user name, then the repository.
GitHubOutcomes == {"usernameThrows", "notFound", "deleteThrows", "deleted"}

deleteGitHub ==
  /\ step = "delete-project"
  /\ dp.at = "github"
  /\ \E outcome \in GitHubOutcomes :
       dp' = [dp EXCEPT
                !.ops = dp.ops \o
                          (IF outcome = "usernameThrows"
                           THEN <<"getGitHubUsername">>
                           ELSE <<"getGitHubUsername", "deleteGitHubRepo">>),
                !.result.github =
                   CASE outcome = "deleted" ->
                          [success |-> TRUE,
                           message |-> <<"Deleted successfully">>]
                     [] outcome = "notFound" ->
                          [success |-> FALSE,
                           message |-> <<"Repository not found (may already be deleted)">>]
                     [] OTHER ->
                          [success |-> FALSE, message |-> <<"Error">>],
                !.at = "local"]
  /\ UNCHANGED step
  /\ dpFrame

\* The condition of the third block.
removesLocalDir_whenFound(deleteLocalDir, localDirExists) == localDirExists

removesLocalDir(deleteLocalDir, localDirExists) ==
  deleteLocalDir /\ localDirExists

\* Third block, then setResult(deletionResult); setStep('complete').
deleteLocal ==
  /\ step = "delete-project"
  /\ dp.at = "local"
  /\ IF removesLocalDir(dp.deleteLocalDir, dp.localDirExists)
     THEN \E removed \in BOOLEAN :
            dp' = [dp EXCEPT
                     !.ops = Append(dp.ops, "rm"),
                     !.result =
                        [railway |-> dp.result.railway,
                         github |-> dp.result.github,
                         localDirectory |->
                           [success |-> removed,
                            message |-> IF removed
                                        THEN <<"Deleted successfully">>
                                        ELSE <<"Error">>]],
                     !.at = "done",
                     !.step = "complete"]
     ELSE dp' = [dp EXCEPT !.at = "done", !.step = "complete"]
  /\ UNCHANGED step
  /\ dpFrame

\* handleReturnToMenu of the component: onComplete().
handleDeleteComplete ==
  /\ step = "delete-project"
  /\ dp.step = "complete"
  /\ step' = "mode-selection"
  /\ dp' = [dp EXCEPT !.step = "none"]
  /\ dpFrame

\* The menu is shown and the component has not been mounted yet.
InitDelete ==
  /\ AppAt("mode-selection")
  /\ dm = DmIdle
  /\ dp = [DpStart EXCEPT !.step = "none"]

NextDelete ==
  \/ handleModeDelete
  \/ setInputValue
  \/ dpHandleNameSubmit
  \/ handleConfirmSelect
  \/ handleLocalDirSelect
  \/ performDeletion
  \/ deleteRailway
  \/ deleteGitHub
  \/ deleteLocal
  \/ handleDeleteComplete

SpecDelete == InitDelete /\ [][NextDelete]_vars

\* ------------------------------------------ provisionRailwayInfrastructure
\* The requests of provisionRailwayInfrastructure in the order it awaits
\* them.
InfrastructureCalls ==
  << "createRailwayProject", "provisionPostgres", "createService",
     "setServiceRootDirectory", "connectServiceToGitHub",
     "getServiceDomain", "setServiceVariables", "deployService" >>

ProjectNames == {"site-a", "site-b"}
RepoNames == {"owner/site-a", "owner/site-b"}

\* The function has been called and awaits its first request.
InfrastructureStart(projectName, githubRepoName) ==
  [fn          |-> "provisionRailwayInfrastructure",
   projectName |-> projectName,
   githubRepo  |-> githubRepoName,
   at          |-> 1,
   issued      |-> <<InfrastructureCalls[1]>>,
   outcome     |-> "pending",
   result      |-> Undefined]

InInfrastructure ==
  /\ poll.fn = "provisionRailwayInfrastructure"
  /\ poll.outcome = "pending"

infraFrame ==
  UNCHANGED << uiVars, withTestValues, effectPending, runVars, histVars,
               llmVars, viewVars >>

\* The awaited request resolves: the next one is sent, or the function
\* returns the RailwayProject.
infraCallReturns ==
  /\ InInfrastructure
  /\ IF poll.at < Len(InfrastructureCalls)
     THEN poll' = [poll EXCEPT
                     !.at = poll.at + 1,
                     !.issued = Append(poll.issued,
                                       InfrastructureCalls[poll.at + 1])]
     ELSE poll' = [poll EXCEPT
                     !.outcome = "returned",
                     !.result = <<"project", poll.projectName,
                                  "serviceUrl", "databaseUrl">>]
  /\ infraFrame

\* The awaited request rejects: nothing catches, the function rejects.
infraCallThrows ==
  /\ InInfrastructure
  /\ poll' = [poll EXCEPT !.outcome = "threw"]
  /\ infraFrame

InitInfra ==
  /\ AppView("mode-selection")
  /\ dm = DmIdle
  /\ dp = DpIdle
  /\ \E projectName \in ProjectNames, githubRepoName \in RepoNames :
       poll = InfrastructureStart(projectName, githubRepoName)

NextInfra == infraCallReturns \/ infraCallThrows

SpecInfra == InitInfra /\ [][NextInfra]_vars

\* ------------------------------------------------------- readiness pollers
\* The timeline of a run that has come to position to from position from
\* with every call on the way returning.
RECURSIVE TimelineAt(_, _, _, _)
TimelineAt(steps, from, to, wtv) ==
  IF from >= to THEN steps
  ELSE LET n == NextPos(from, TRUE, wtv)
       IN TimelineAt(AfterReturn(steps, from, n), n, to, wtv)

\* The calls such a run has started.
RECURSIVE CallsTo(_, _, _, _)
CallsTo(cs, from, to, wtv) ==
  IF from >= to THEN cs
  ELSE LET n == NextPos(from, TRUE, wtv)
       IN CallsTo(Append(cs, CallAt(n)), n, to, wtv)

\* Position of a call in the pipeline.
PosOf(call) == CHOOSE p \in Positions : CallAt(p) = call

\* A first run standing at position p, every call before it having
\* returned.
InitAt(p) ==
  /\ step = "provisioning"
  /\ credentials = Credentials
  /\ projectConfig \in {<<slug>> : slug \in Slugs}
  /\ withTestValues \in BOOLEAN
  /\ provisioningSteps =
       TimelineAt(AfterPreflight(FALSE).steps, 1, p, withTestValues)
  /\ finalResult = Undefined
  /\ error = Undefined
  /\ projectId = IF p > PosOf("createRailwayProject")
                 THEN <<"project", 1>> ELSE Undefined
  /\ githubRepo = IF p > PosOf("createGitHubRepo")
                  THEN <<"owner", projectConfig[1]>> ELSE Undefined
  /\ createdResources =
       LET r == IF projectId # Undefined
                THEN recordProject(NoResources, projectId) ELSE NoResources
       IN IF githubRepo # Undefined THEN recordRepo(r, githubRepo) ELSE r
  /\ effectPending = FALSE
  /\ pc = p
  /\ cSteps = <<>>
  /\ cResources = NoResources
  /\ win = EmptyWindows
  /\ emitted = 0
  /\ runs = 1
  /\ calls = CallsTo(AfterPreflight(FALSE).calls, 1, p, withTestValues)
  /\ recorded = (IF projectId # Undefined
                 THEN <<"railwayProjectId">> ELSE <<>>)
                \o (IF githubRepo # Undefined THEN <<"githubRepo">> ELSE <<>>)
  /\ deleteCalls = <<>>
  /\ rollbacks = 0
  /\ failure = Undefined
  /\ unhandled = FALSE
  /\ collections = <<>>
  /\ llmRetries = MAX_LLM_RETRIES
  /\ llmError = Undefined
  /\ dm = DmIdle
  /\ dp = DpIdle

\* Position of the waitForPayloadReady call in the pipeline.
PayloadReadyPos == CHOOSE p \in Positions : CallAt(p) = "waitForPayloadReady"

\* waitForPayloadReady(serviceUrl) entered: nothing slept, nothing probed.
PayloadPollStart ==
  [fn             |-> "waitForPayloadReady",
   maxAttempts    |-> DefaultMaxAttempts,
   intervalMs     |-> DefaultIntervalMs,
   initialDelayMs |-> DefaultInitialDelayMs,
   at             |-> "initialDelay",
   attempt        |-> 1,
   probes         |-> 0,
   notReady       |-> 0,
   transportErrors|-> 0,
   initialSleeps  |-> 0,
   intervalSleeps |-> 0,
   slept          |-> 0,
   last           |-> "none",
   status         |-> 0,
   spaced         |-> TRUE,
   message        |-> Undefined]

InPayloadPoll ==
  /\ pc \in Positions
  /\ CallAt(pc) = "waitForPayloadReady"
  /\ poll.fn = "waitForPayloadReady"

pollFrame ==
  UNCHANGED << step, credentials, projectConfig, provisioningSteps,
               finalResult, error, createdResources, withTestValues, llmVars, viewVars,
               effectPending, runVars, histVars >>

\* if (initialDelayMs > 0) await sleep(initialDelayMs), then the first test
\* of the loop condition.
payloadInitialDelay ==
  /\ InPayloadPoll
  /\ poll.at = "initialDelay"
  /\ LET sleeps == poll.initialDelayMs > 0
     IN poll' = [poll EXCEPT
          !.initialSleeps = IF sleeps THEN @ + 1 ELSE @,
          !.slept = IF sleeps THEN @ + poll.initialDelayMs ELSE @,
          !.last = IF sleeps THEN "sleepInitial" ELSE @,
          !.spaced = @ /\ poll.last = "none",
          !.at = IF 1 <= poll.maxAttempts THEN "fetch" ELSE "thrown",
          !.message = IF 1 <= poll.maxAttempts THEN Undefined
                      ELSE payloadTimeoutMessage(poll.maxAttempts,
                                                 poll.intervalMs)]
  /\ pollFrame

\* One fetch of the loop and the code up to the next await, return or throw.
payloadProbe ==
  /\ InPayloadPoll
  /\ poll.at = "fetch"
  /\ \E response \in Responses :
       LET to == afterProbe(poll.attempt, poll.maxAttempts, response)
       IN poll' = [poll EXCEPT
            !.probes = @ + 1,
            !.notReady = IF to = "returned" THEN @ ELSE @ + 1,
            !.transportErrors = IF response.threw THEN @ + 1 ELSE @,
            !.spaced = @ /\ poll.last =
                         (IF poll.probes = 0 THEN "sleepInitial"
                          ELSE "sleepInterval"),
            !.last = "probe",
            !.status = response.status,
            !.at = to,
            !.message = IF to = "thrown"
                        THEN payloadTimeoutMessage(poll.maxAttempts,
                                                   poll.intervalMs)
                        ELSE Undefined]
  /\ pollFrame

\* await sleep(intervalMs), attempt++ and the loop condition.
payloadIntervalSleep ==
  /\ InPayloadPoll
  /\ poll.at = "interval"
  /\ poll' = [poll EXCEPT
       !.intervalSleeps = @ + 1,
       !.slept = @ + poll.intervalMs,
       !.spaced = @ /\ poll.last = "probe",
       !.last = "sleepInterval",
       !.attempt = @ + 1,
       !.at = "fetch"]
  /\ pollFrame

\* waitForPayloadReady returned: step 9 completes and the run goes on.
payloadReadyReturns ==
  /\ InPayloadPoll
  /\ poll.at = "returned"
  /\ callReturns

\* waitForPayloadReady threw its timeout error: the catch of step 9 wraps
\* it and the run fails.
payloadReadyThrows ==
  /\ InPayloadPoll
  /\ poll.at = "thrown"
  /\ callThrows
  /\ error' = MessageOf(Rethrown(pc, Err(poll.message)))

InitPoll == InitAt(PayloadReadyPos) /\ poll = PayloadPollStart

NextPoll ==
  \/ payloadInitialDelay
  \/ payloadProbe
  \/ payloadIntervalSleep
  \/ payloadReadyReturns
  \/ payloadReadyThrows

SpecPoll == InitPoll /\ [][NextPoll]_vars

\* ------------------------------------------------- lines of one subprocess
\* One subprocess followed line by line.  The k-th non-blank line it writes
\* has the text k, so that every line can be told from every other; it
\* comes with or without white space around it, and blank lines come in
\* between.
LineText(k) == <<ToString(k)>>

Padded(text) ==
  { text, <<" ">> \o text, text \o <<" ">>, <<" ">> \o text \o <<" ", " ">> }

Blanks == { <<>>, <<" ">>, <<" ", " ">> }

\* The data events that can follow k - 1 non-blank lines: the pieces of
\* data.toString().split('\n').
NumberedChunks(k) ==
  { <<b>> : b \in Blanks }
    \cup { <<l>> : l \in Padded(LineText(k)) }
    \cup { <<b, l>> : b \in Blanks, l \in Padded(LineText(k)) }
    \cup { <<l, b>> : l \in Padded(LineText(k)), b \in Blanks }
    \cup { <<l, m>> : l \in Padded(LineText(k)),
                      m \in Padded(LineText(k + 1)) }

\* The texts of the non-blank pieces of a chunk that starts at line k.
TextsOf(chunk, k) ==
  IF \A i \in 1..Len(chunk) : chunk[i] \in Blanks THEN <<>>
  ELSE IF \E i \in 1..Len(chunk) : chunk[i] \in Blanks
       THEN <<LineText(k)>>
       ELSE [i \in 1..Len(chunk) |-> LineText(k + i - 1)]

\* spawn(...) has returned the process; nothing has been written yet.
\* arrived is what the process wrote (non-blank lines, by their text),
\* updates counts the addLine calls that went on to updateStep, sawBlank
\* tells whether a blank piece came.
SpawnStart ==
  [fn |-> "spawn", arrived |-> <<>>, updates |-> 0, sawBlank |-> FALSE]

\* proc.stdout.on('data') / proc.stderr.on('data') for one chunk.
onDataLines ==
  /\ pc \in Positions
  /\ IsSubprocess(pc)
  /\ poll.fn = "spawn"
  /\ Len(poll.arrived) + 2 <= MaxArrived
  /\ \E chunk \in NumberedChunks(Len(poll.arrived) + 1) :
       LET r == forEachAddLine(win, provisioningSteps, StepAt(pc), chunk)
           updating == { i \in 1..Len(chunk) :
                           addLine(EmptyWindows, chunk[i]).update }
       IN /\ win' = r.win
          /\ provisioningSteps' = r.steps
          /\ poll' = [poll EXCEPT
                        !.arrived = poll.arrived
                                      \o TextsOf(chunk, Len(poll.arrived) + 1),
                        !.updates = poll.updates + Cardinality(updating),
                        !.sawBlank = poll.sawBlank
                                       \/ \E i \in 1..Len(chunk) :
                                            chunk[i] \in Blanks]
  /\ UNCHANGED << step, credentials, projectConfig, finalResult, error,
                  createdResources, withTestValues, llmVars, viewVars,
                  effectPending, pc, cSteps, cResources, projectId,
                  githubRepo, emitted, runs >>
  /\ UNCHANGED histVars

InitLines ==
  /\ \E p \in { q \in Positions : IsSubprocess(q) } : InitAt(p)
  /\ poll = SpawnStart

NextLines == onDataLines

SpecLines == InitLines /\ [][NextLines]_vars

\* ------------------------------------------------------- provisionPostgres
\* const maxAttempts = 60 of the deployment-status loop, and its sleep.
PostgresMaxAttempts == 60
PostgresIntervalMs == 3000

\* What one status query can come to: a thrown request error, no
\* deployment listed yet, or the status of the first deployment.
DeploymentStatuses == {"SUCCESS", "DEPLOYING", "FAILED"}
StatusOutcomes ==
  {[threw |-> TRUE, status |-> ""], [threw |-> FALSE, status |-> ""]}
    \cup {[threw |-> FALSE, status |-> st] : st \in DeploymentStatuses}

\* if (deployment && deployment.node.status === 'SUCCESS') return ...
deploymentSucceeded(outcome) == ~outcome.threw /\ outcome.status = "SUCCESS"

\* After the loop: "Return the URL even if we couldn't confirm deployment".
afterPostgresLoop == "returned"

\* provisionPostgres entered: the service is about to be created.
PostgresPollStart ==
  [fn          |-> "provisionPostgres",
   maxAttempts |-> PostgresMaxAttempts,
   at          |-> "setup",
   attempts    |-> 0,
   polls       |-> 0,
   slept       |-> 0,
   sawSuccess  |-> FALSE,
   status      |-> ""]

InPostgresPoll ==
  /\ pc \in Positions
  /\ CallAt(pc) = "provisionPostgres"
  /\ poll.fn = "provisionPostgres"

\* The loop condition attempts < maxAttempts for the record p.
atPostgresLoopTop(p) ==
  IF p.attempts < p.maxAttempts
  THEN [p EXCEPT !.at = "poll"]
  ELSE [p EXCEPT !.at = afterPostgresLoop]

\* The service, its volume and variables are created and deployService
\* returned; the loop condition is tested for the first time.
postgresDeployed ==
  /\ InPostgresPoll
  /\ poll.at = "setup"
  /\ poll' = atPostgresLoopTop(poll)
  /\ pollFrame

\* One of the requests before the loop throws: provisionPostgres rejects.
postgresSetupThrows ==
  /\ InPostgresPoll
  /\ poll.at = "setup"
  /\ callThrows

\* One status query of the loop; its catch ignores a thrown request.
postgresPoll ==
  /\ InPostgresPoll
  /\ poll.at = "poll"
  /\ \E outcome \in StatusOutcomes :
       poll' = [poll EXCEPT
         !.polls = @ + 1,
         !.status = outcome.status,
         !.sawSuccess = deploymentSucceeded(outcome),
         !.at = IF deploymentSucceeded(outcome) THEN "returned" ELSE "sleep"]
  /\ pollFrame

\* await sleep(3000); attempts++ and the loop condition.
postgresSleep ==
  /\ InPostgresPoll
  /\ poll.at = "sleep"
  /\ poll' = atPostgresLoopTop(
       [poll EXCEPT !.attempts = @ + 1, !.slept = @ + PostgresIntervalMs])
  /\ pollFrame

\* provisionPostgres returned the database URL: step 3 completes.
postgresReturns ==
  /\ InPostgresPoll
  /\ poll.at = "returned"
  /\ callReturns

InitPostgres == InitAt(PosOf("provisionPostgres")) /\ poll = PostgresPollStart

NextPostgres ==
  \/ postgresDeployed
  \/ postgresSetupThrows
  \/ postgresPoll
  \/ postgresSleep
  \/ postgresReturns

SpecPostgres == InitPostgres /\ [][NextPostgres]_vars

\* Position of the waitForWorkflowCompletion call in the pipeline.
WorkflowPos ==
  CHOOSE p \in Positions : CallAt(p) = "waitForWorkflowCompletion"

\* How long one listWorkflowRunsForRepo request takes, in ms.
Latencies == {0, 2000}

\* The clock reading Date.now() - startTime is followed up to MaxClock.
MaxClock == 700000

\* Date.now() - startTime after ms more milliseconds.
advance(elapsed, ms) ==
  IF elapsed + ms > MaxClock THEN MaxClock ELSE elapsed + ms

\* What one listWorkflowRunsForRepo request and the find over its result
\* can come to: a thrown transport error, no run created after the
\* trigger timestamp, or such a run in one of its states.
ListOutcomes ==
  {[threw |-> TRUE, found |-> FALSE, run |-> <<>>],
   [threw |-> FALSE, found |-> FALSE, run |-> <<>>]}
    \cup {[threw |-> FALSE, found |-> TRUE, run |-> rs] : rs \in RunStates}

\* The loop that never gives up
loopContinues_forever(elapsed, maxWaitTime) == TRUE

\* while (Date.now() - startTime < maxWaitTime)
loopContinues(elapsed, maxWaitTime) == elapsed < maxWaitTime

\* onProgress called only for a completed run
invokesProgress_onlyCompleted(outcome) ==
  ~outcome.threw /\ outcome.found /\ outcome.run[1] = "completed"

\* if (relevantRun) { ...; options.onProgress?.(status, conclusion)
invokesProgress(outcome) == ~outcome.threw /\ outcome.found

\* Where the loop body leaves waitForWorkflowCompletion: the catch throws
\* on a transport error, a completed run is returned, anything else sleeps.
afterList(outcome) ==
  IF outcome.threw THEN "thrown"
  ELSE IF outcome.found /\ outcome.run[1] = "completed" THEN "returned"
  ELSE "sleep"

\* waitForWorkflowCompletion entered: startTime = Date.now().
WorkflowPollStart ==
  [fn           |-> "waitForWorkflowCompletion",
   maxWaitTime  |-> WorkflowMaxWaitTime,
   pollInterval |-> WorkflowPollInterval,
   at           |-> "registerDelay",
   elapsed      |-> 0,
   polled       |-> FALSE,
   seen         |-> "none",
   run          |-> <<>>,
   progressed   |-> FALSE,
   message      |-> Undefined]

InWorkflowPoll ==
  /\ pc \in Positions
  /\ CallAt(pc) = "waitForWorkflowCompletion"
  /\ poll.fn = "waitForWorkflowCompletion"

\* The loop condition, tested at clock reading elapsed: into the body or
\* to the throw after the loop.
atLoopTop(p, elapsed) ==
  IF loopContinues(elapsed, p.maxWaitTime)
  THEN [p EXCEPT !.elapsed = elapsed, !.at = "list"]
  ELSE [p EXCEPT !.elapsed = elapsed, !.at = "thrown",
                 !.message = workflowTimeoutMessage(p.maxWaitTime)]

\* await sleep(5000) and the first test of the loop condition.
workflowRegisterDelay ==
  /\ InWorkflowPoll
  /\ poll.at = "registerDelay"
  /\ poll' = atLoopTop(poll, advance(poll.elapsed, RegisterDelayMs))
  /\ pollFrame

\* One pass through the try block up to its await sleep, return or throw,
\* the onProgress callback included.
workflowPoll ==
  /\ InWorkflowPoll
  /\ poll.at = "list"
  /\ \E outcome \in ListOutcomes, latency \in Latencies :
       /\ poll' = [poll EXCEPT
            !.elapsed = advance(@, latency),
            !.polled = TRUE,
            !.seen = IF outcome.threw THEN "threw"
                     ELSE IF outcome.found THEN "run" ELSE "noRun",
            !.run = IF invokesProgress(outcome) THEN outcome.run ELSE @,
            !.progressed = invokesProgress(outcome),
            !.at = afterList(outcome),
            !.message = IF outcome.threw
                        THEN workflowCheckFailedMessage(Err(<<"fetch failed">>))
                        ELSE Undefined]
       /\ provisioningSteps' =
            IF invokesProgress(outcome)
            THEN updateStep(provisioningSteps, 12, "in_progress", Undefined,
                            progressDetails(outcome.run[1], outcome.run[2]))
            ELSE provisioningSteps
  /\ UNCHANGED << step, credentials, projectConfig, finalResult, error,
                  createdResources, withTestValues, llmVars, viewVars, effectPending >>
  /\ UNCHANGED << runVars, histVars >>

\* await sleep(pollInterval) and the next test of the loop condition.
workflowSleep ==
  /\ InWorkflowPoll
  /\ poll.at = "sleep"
  /\ poll' = atLoopTop(poll, advance(poll.elapsed, poll.pollInterval))
  /\ pollFrame

\* The run came back completed with conclusion success: step 12 completes
\* and the app shows the result.
workflowSucceeds ==
  /\ InWorkflowPoll
  /\ poll.at = "returned"
  /\ poll.run[2] = <<"success">>
  /\ callReturns

\* The run came back completed with another conclusion: step 12 throws.
workflowFails ==
  /\ InWorkflowPoll
  /\ poll.at = "returned"
  /\ poll.run[2] # <<"success">>
  /\ callThrows
  /\ error' = MessageOf(Rethrown(pc, Err(workflowFailedMessage(poll.run[2]))))

\* waitForWorkflowCompletion threw: the catch of step 12 wraps the error
\* and the run fails.
workflowThrows ==
  /\ InWorkflowPoll
  /\ poll.at = "thrown"
  /\ callThrows
  /\ error' = MessageOf(Rethrown(pc, Err(poll.message)))

InitWorkflow == InitAt(WorkflowPos) /\ poll = WorkflowPollStart

NextWorkflow ==
  \/ workflowRegisterDelay
  \/ workflowPoll
  \/ workflowSleep
  \/ workflowSucceeds
  \/ workflowFails
  \/ workflowThrows

SpecWorkflow == InitWorkflow /\ [][NextWorkflow]_vars

\* Timers fire and requests settle: whatever waitForWorkflowCompletion and
\* its caller await is resumed.
FairSpecWorkflow == SpecWorkflow /\ WF_vars(NextWorkflow)

\* ------------------------------------------------------------ properties
InProgress == {i \in 1..Len(provisioningSteps) :
                 provisioningSteps[i].status = "in_progress"}

RunFailed == pc = 0 /\ failure # Undefined

Deleted(fn, arg) ==
  \E i \in 1..Len(deleteCalls) :
    deleteCalls[i].fn = fn /\ deleteCalls[i].arg = arg

\* C1: when a run has failed, every resource the run created (the Railway
\* project once createRailwayProject returned, the repository once
\* createGitHubRepo returned) has had its delete call issued by rollback.
C1_RollbackDeletesCreated ==
  RunFailed =>
    /\ projectId # Undefined => Deleted("deleteRailwayProject", projectId)
    /\ githubRepo # Undefined => Deleted("deleteGitHubRepo", githubRepo)

\* C2: when a run has failed, the step that was running when the call threw
\* has status error and its error field is the caught message.
C2_FailedStepMarkedError ==
  RunFailed =>
    /\ provisioningSteps[failure[1] + 1].status = "error"
    /\ provisioningSteps[failure[1] + 1].error = failure[2]

\* C3: when a run has failed at step k, every step after k is still pending.
C3_LaterStepsStayPending ==
  RunFailed =>
    \A i \in 1..Len(provisioningSteps) :
      i - 1 > failure[1] => provisioningSteps[i].status = "pending"

C5_AtMostOneInProgress == Cardinality(InProgress) <= 1

C5_Witness ==
  /\ RunFailed
  /\ failure[1] = 1
  /\ provisioningSteps[2].status = "in_progress"
  /\ provisioningSteps[2].details # Undefined
  /\ Len(win.outputLines) = 0

AllowedTransitions ==
  { <<"pending", "in_progress">>, <<"in_progress", "complete">>,
    <<"in_progress", "error">> }

\* C6: within one run (runs unchanged) every status change of a step is
\* pending -> in_progress, in_progress -> complete or in_progress -> error;
\* in particular no step leaves complete or error.
C6_OnlyAllowedTransitions ==
  [][ (runs' = runs /\ Len(provisioningSteps') = Len(provisioningSteps)) =>
        \A i \in 1..Len(provisioningSteps) :
          \/ provisioningSteps'[i].status = provisioningSteps[i].status
          \/ <<provisioningSteps[i].status, provisioningSteps'[i].status>>
               \in AllowedTransitions ]_vars

Threw(fn) ==
  \E i \in 1..Len(deleteCalls) :
    deleteCalls[i].fn = fn /\ deleteCalls[i].outcome = "throws"

RecordedCount(resources) ==
  (IF resources.githubRepo # Undefined THEN 1 ELSE 0)
  + (IF resources.railwayProjectId # Undefined THEN 1 ELSE 0)

C10_SuccessfulRun ==
  /\ step = "complete" =>
       /\ finalResult # Undefined
       /\ rollbacks = 0
       /\ deleteCalls = <<>>
       /\ failure = Undefined
       /\ Len(provisioningSteps) = NumSteps
       /\ \A i \in 1..Len(provisioningSteps) :
            /\ provisioningSteps[i].status = "complete"
            /\ provisioningSteps[i].error = Undefined
  /\ rollbacks <= 1
  /\ rollbacks = 1 => failure # Undefined

C10_Witness ==
  /\ step = "complete"
  /\ runs = 2
  /\ Len(calls) > NumSteps

\* C11: when the target directory exists at the start of runProvisioning the
\* app is in the error state with the pre-flight message, every step is
\* pending, no resource was created or recorded, no collaborator was called
\* and rollback was not invoked.
C11_PreflightFailure ==
  (step = "error" /\ error = PreflightMessage) =>
     /\ pc = 0
     /\ provisioningSteps = InitialSteps
     /\ \A i \in 1..Len(provisioningSteps) :
          provisioningSteps[i].status = "pending"
     /\ createdResources = NoResources
     /\ projectId = Undefined /\ githubRepo = Undefined
     /\ recorded = <<>>
     /\ calls = <<>>
     /\ rollbacks = 0 /\ deleteCalls = <<>>
     /\ failure = Undefined /\ finalResult = Undefined

C11_Witness ==
  /\ step = "error" /\ error = PreflightMessage
  /\ runs = 2
  /\ cSteps # <<>>

\* C12: while a run is in flight, every resource handle a create call has
\* returned is in createdResources: the project id from the moment
\* createRailwayProject returned, the repository from the moment
\* createGitHubRepo returned, hence before any later call is started.
C12_RecordedOnReturn ==
  pc \in Positions =>
     /\ projectId # Undefined => createdResources.railwayProjectId = projectId
     /\ githubRepo # Undefined => createdResources.githubRepo = githubRepo

C12_Witness ==
  /\ pc \in Positions
  /\ CallAt(pc) = "initializeAndPushRepo"
  /\ createdResources.railwayProjectId # Undefined
  /\ createdResources.githubRepo # Undefined

\* C19: whatever the number of lines the stdout and stderr data events of
\* runNpmInstall and runPayloadMigrationGeneration bring, and in whatever
\* order the events come, the live window holds at most 5 lines and the
\* error window at most 50; so does the details list shown on the step.
C19_WindowsBounded ==
  /\ Len(win.outputLines) <= maxLines
  /\ Len(win.allOutput) <= maxErrorLines
  /\ \A i \in 1..Len(provisioningSteps) :
       Len(provisioningSteps[i].details) <= maxLines

C19_Witness ==
  /\ pc \in Positions
  /\ CallAt(pc) = "runPayloadMigrationGeneration"
  /\ Len(win.outputLines) = maxLines
  /\ Len(win.allOutput) = maxErrorLines
  /\ Len(provisioningSteps[5].details) = maxLines

\* The message heads a failed subprocess at position p can report.
FailureHeads(p) ==
  { <<ClosePrefix(p), ToString(code)>> : code \in ExitCodes \ {0} }
    \cup { <<ErrorPrefix(p), "spawn error">> }

\* The retained error window as it is spelled in a failure message.
RetainedOutput ==
  IF win.allOutput = <<>> THEN <<>>
  ELSE <<"\n\nOutput:\n">> \o Join(win.allOutput)

PayloadReady == poll.fn = "waitForPayloadReady" /\ poll.at = "returned"
PayloadTimedOut == poll.fn = "waitForPayloadReady" /\ poll.at = "thrown"

\* C13: when the probe of waitForPayloadReady was not ready (a non-ready
\* status or a thrown transport error) k < maxAttempts times and then
\* ready, the call returns after exactly k + 1 probes, with the initial
\* delay before the first probe and exactly one interval sleep between
\* consecutive probes (k in all); no transport error ends the polling: a
\* call that has not used up its attempts has not thrown.
C13_ReadyAfterKProbes ==
  /\ PayloadReady =>
       /\ poll.notReady < poll.maxAttempts
       /\ poll.probes = poll.notReady + 1
       /\ poll.intervalSleeps = poll.notReady
       /\ poll.spaced
  /\ (poll.fn = "waitForPayloadReady" /\ poll.probes < poll.maxAttempts) =>
       poll.at # "thrown"

C13_Witness ==
  /\ PayloadReady
  /\ poll.notReady = poll.maxAttempts - 1
  /\ poll.transportErrors > 1
  /\ poll.transportErrors < poll.notReady
  /\ pc = PayloadReadyPos + 1

\* C14: when the probe never is ready, waitForPayloadReady throws only
\* after exactly maxAttempts probes, having slept the initial delay exactly
\* once, before the first probe, and the interval exactly maxAttempts - 1
\* times, each time between two probes and never after the last one.
C14_ExhaustsAllAttempts ==
  PayloadTimedOut =>
     /\ poll.probes = poll.maxAttempts
     /\ poll.notReady = poll.maxAttempts
     /\ poll.initialSleeps = 1
     /\ poll.intervalSleeps = poll.maxAttempts - 1
     /\ poll.spaced
     /\ poll.last = "probe"

C14_Witness ==
  /\ PayloadTimedOut
  /\ poll.transportErrors = 2
  /\ RunFailed
  /\ failure[1] = 9

\* C15: when waitForPayloadReady has used up its attempts, the number of
\* seconds its timeout error names is the time it slept, which is
\* initialDelayMs + (maxAttempts - 1) * intervalMs.
C15_NamedDurationIsSlept ==
  PayloadTimedOut =>
     /\ poll.slept =
          poll.initialDelayMs + (poll.maxAttempts - 1) * poll.intervalMs
     /\ poll.message[4] = ToString(poll.slept \div 1000)

\* The waitForWorkflowCompletion call of the run has thrown its timeout.
WorkflowTimedOut ==
  /\ poll.fn = "waitForWorkflowCompletion"
  /\ poll.at = "thrown"
  /\ poll.message = workflowTimeoutMessage(poll.maxWaitTime)

\* C16: a transport error while listing the workflow runs counts as
\* not-ready: after it waitForWorkflowCompletion goes on polling, and the
\* call has not failed while less than maxWaitTime has elapsed.
C16_TransportErrorNotFatal ==
  poll.fn = "waitForWorkflowCompletion" =>
     /\ poll.seen = "threw" => poll.at \in {"sleep", "list"}
     /\ poll.at = "thrown" => poll.elapsed >= poll.maxWaitTime

\* C17 as stated: every poll waitForWorkflowCompletion makes invokes
\* onProgress, the polls that find no run created after the trigger
\* timestamp included.
C17_ProgressOnEveryPoll ==
  (poll.fn = "waitForWorkflowCompletion" /\ poll.polled
     /\ poll.seen # "threw") => poll.progressed

\* C17 amended: a poll invokes onProgress exactly when it finds a run
\* created after the trigger timestamp, completed or not, and then step 12
\* shows that run's status and conclusion; a poll that finds no such run
\* (or fails) leaves the timeline as it was.
C17_ProgressWhenRunFound ==
  [][ (InWorkflowPoll /\ poll.at = "list") =>
        IF poll'.seen = "run"
        THEN /\ poll'.progressed
             /\ provisioningSteps' =
                  updateStep(provisioningSteps, 12, "in_progress", Undefined,
                             progressDetails(poll'.run[1], poll'.run[2]))
        ELSE /\ ~poll'.progressed
             /\ provisioningSteps' = provisioningSteps ]_vars

C17_Witness ==
  /\ InWorkflowPoll
  /\ poll.seen = "noRun"
  /\ ~poll.progressed
  /\ poll.run = <<"in_progress", Undefined>>
  /\ provisioningSteps[13].details = << <<"Status: ", "in_progress">> >>

C21_UpdateStepFrame ==
  [][ (pc \in Positions /\ pc' \in Positions) =>
        /\ Len(provisioningSteps') = Len(provisioningSteps)
        /\ \A i \in 1..Len(provisioningSteps) :
             /\ provisioningSteps'[i].label = provisioningSteps[i].label
             /\ (pc' = pc /\ i # StepAt(pc) + 1) =>
                  provisioningSteps'[i] = provisioningSteps[i] ]_vars

C21_Witness ==
  /\ pc \in Positions
  /\ CallAt(pc) = "runPayloadMigrationGeneration"
  /\ Len(provisioningSteps) = NumSteps
  /\ provisioningSteps[5].status = "in_progress"
  /\ Len(provisioningSteps[5].details) = maxLines
  /\ provisioningSteps[5].label = StepLabels[5]
  /\ provisioningSteps[4].status = "complete"
  /\ provisioningSteps[6].status = "pending"

\* C22: for every HTTP status s the probe answers with, waitForPayloadReady
\* takes the application as ready exactly when 200 <= s <= 299 or s is 401
\* or 403.
C22_ReadyIffSuccessOrAuth ==
  (poll.fn = "waitForPayloadReady" /\ poll.last = "probe"
     /\ poll.status # 0) =>
     (poll.at = "returned" <=>
        \/ (200 <= poll.status /\ poll.status <= 299)
        \/ poll.status \in {401, 403})

\* C23: a run started after an earlier run of the same process failed is
\* not influenced by the step statuses the earlier run left: when it fails
\* at step j, step j and only step j is marked error, the steps before j
\* are complete as the run left them and the steps after j are pending.
C23_LaterRunUnaffected ==
  (RunFailed /\ runs >= 2) =>
     \A i \in 1..Len(provisioningSteps) :
       /\ i - 1 < failure[1] => provisioningSteps[i].status = "complete"
       /\ i - 1 = failure[1] => provisioningSteps[i].status = "error"
       /\ i - 1 > failure[1] => provisioningSteps[i].status = "pending"

\* C24: provisionPostgres returns (a connection string) only after a poll
\* has observed the deployment status SUCCESS; when none of its 60 polls
\* did, the call fails and the run is in the error state, failed at step 3.
C24_PostgresWaitFailsCleanly ==
  poll.fn = "provisionPostgres" =>
     /\ poll.at = "returned" => poll.sawSuccess
     /\ (poll.polls = poll.maxAttempts /\ ~poll.sawSuccess
          /\ poll.at \notin {"poll", "sleep"}) =>
          (pc = 0 /\ step = "error" /\ failure # Undefined
           /\ failure[1] = 3)

\* C25: in DataManagement the operation executed is the one the user
\* confirmed last: after 'Yes, erase all content' eraseAllContent runs and
\* never seedContent, after 'Yes, seed content' seedContent runs for the
\* selected seed set.
C25_ExecutesConfirmedAction ==
  dm.step = "complete" =>
     /\ dm.confirmed = <<"erase">> => dm.executed = <<"eraseAllContent">>
     /\ \A id \in seedSets :
          dm.confirmed = <<"seed", id>> => dm.executed = <<"seedContent", id>>

\* C26: collection generation never stalls: from step
\* 'collection-generation' the CLI always eventually is at
\* 'collection-preview' or 'provisioning' (a failed generation is followed
\* by another attempt while retries remain, and by provisioning without
\* collections once they are used up).
C26_GenerationNeverStalls ==
  (step = "collection-generation") ~>
     (step \in {"collection-preview", "provisioning"})

\* C27: whenever the CLI step is 'collection-preview' the collections list
\* is non-empty, so the preview and its accept / reject prompt are shown.
C27_PreviewHasCollections ==
  step = "collection-preview" => Len(collections) > 0

\* C28: DeleteProject issues no Railway, GitHub or filesystem call before
\* the user chose 'Yes, delete permanently' (so none after 'No, cancel');
\* the local directory is removed only if it existed when the name was
\* submitted and the user chose 'Yes, delete local directory'; and a
\* deletion that has run through has tried Railway, then GitHub, then the
\* local directory if it was asked for, whatever the earlier blocks
\* answered, and stands at 'complete' with a result.
DpOps == { dp.ops[i] : i \in 1..Len(dp.ops) }

ConfiguredBeforeConnect(sent) ==
  \A i \in 1..Len(sent) :
    sent[i] = "connectServiceToGitHub" =>
      \E c \in 1..(i - 1) :
        /\ sent[c] = "createService"
        /\ \A m \in (c + 1)..(i - 1) : sent[m] # "createService"
        /\ \E r \in (c + 1)..(i - 1) : sent[r] = "setServiceRootDirectory"
        /\ \E v \in (c + 1)..(i - 1) : sent[v] = "setServiceVariables"

\* C29: in runProvisioning and in provisionRailwayInfrastructure the root
\* directory and the environment variables of the service have been set
\* when connectServiceToGitHub is called.
C29_ConfiguredBeforeConnect ==
  /\ ConfiguredBeforeConnect(calls)
  /\ poll.fn = "provisionRailwayInfrastructure" =>
       ConfiguredBeforeConnect(poll.issued)

\* The last n elements of s, all of s when it has fewer.
LastN(s, n) == IF Len(s) <= n THEN s ELSE SubSeq(s, Len(s) - n + 1, Len(s))

\* C30: after n non-blank lines of a subprocess, the live window and the
\* details of the step are the last min(n, 5) lines, trimmed and in the
\* order they came, the error window is the last min(n, 50) lines; and
\* updateStep was called once per non-blank line, never for a blank one.
C30_WindowsAreLastLines ==
  poll.fn = "spawn" =>
    /\ win.outputLines = LastN(poll.arrived, maxLines)
    /\ win.allOutput = LastN(poll.arrived, maxErrorLines)
    /\ poll.arrived # <<>> =>
         provisioningSteps[StepAt(pc) + 1].details
           = LastN(poll.arrived, maxLines)
    /\ poll.updates = Len(poll.arrived)

\* More than 50 lines came, with blank ones in between: the oldest have
\* left both windows.
C30_Witness ==
  /\ poll.fn = "spawn"
  /\ poll.sawBlank
  /\ Len(poll.arrived) = maxErrorLines + 2
  /\ win.allOutput[1] = LineText(3)
  /\ win.outputLines = << LineText(48), LineText(49), LineText(50),
                          LineText(51), LineText(52) >>

====
